---- MODULE Spec2Model ----
(***************************************************************************)
(* AutoMate browser engine (src/src/browser/engine.py): the fingerprint    *)
(* profile generator, session startup, the command dispatcher and the      *)
(* stdin/stdout command loop, as a state machine.                          *)
(***************************************************************************)
EXTENDS Integers, Sequences, FiniteSets, TLC

\* Number of input lines the controller sends before the stream ends.
MaxLines == 2

(***************************************************************************)
(* Fingerprint catalogues (engine.py 78-291).  dpr is kept times 100.      *)
(***************************************************************************)
WEBGL_PROFILES ==
    << [vendor |-> "Intel Inc.", renderer |-> "Intel Iris OpenGL Engine"],
       [vendor |-> "Intel Inc.", renderer |-> "Intel(R) UHD Graphics 630"],
       [vendor |-> "Intel Inc.", renderer |-> "Intel(R) HD Graphics 620"],
       [vendor |-> "Intel Inc.", renderer |-> "Intel Iris Plus Graphics 640"],
       [vendor |-> "Google Inc. (NVIDIA)",
        renderer |-> "ANGLE (NVIDIA GeForce GTX 1060 Direct3D11 vs_5_0 ps_5_0)"],
       [vendor |-> "Google Inc. (NVIDIA)",
        renderer |-> "ANGLE (NVIDIA GeForce RTX 3060 Direct3D11 vs_5_0 ps_5_0)"],
       [vendor |-> "Google Inc. (AMD)",
        renderer |-> "ANGLE (AMD Radeon RX 580 Direct3D11 vs_5_0 ps_5_0)"],
       [vendor |-> "Google Inc. (Intel)",
        renderer |-> "ANGLE (Intel(R) UHD Graphics 770 Direct3D11 vs_5_0 ps_5_0)"],
       [vendor |-> "Apple", renderer |-> "Apple M1"],
       [vendor |-> "Apple", renderer |-> "Apple M2 Pro"] >>

ScreenEntry(w, h, aw, ah, dpr100, depth) ==
    [width |-> w, height |-> h, avail_width |-> aw, avail_height |-> ah,
     dpr100 |-> dpr100, color_depth |-> depth]

SCREEN_PROFILES ==
    << ScreenEntry(1920, 1080, 1920, 1040, 100, 24),
       ScreenEntry(2560, 1440, 2560, 1400, 100, 24),
       ScreenEntry(1536, 864, 1536, 824, 125, 24),
       ScreenEntry(1440, 900, 1440, 860, 200, 30),
       ScreenEntry(1680, 1050, 1680, 1010, 100, 24),
       ScreenEntry(1366, 768, 1366, 728, 100, 24),
       ScreenEntry(1920, 1200, 1920, 1160, 100, 24),
       ScreenEntry(3840, 2160, 3840, 2120, 150, 30) >>

PlatformEntry(p, os, ua, hw, mem) ==
    [platform |-> p, os |-> os, ua_platform |-> ua,
     hw_concurrency |-> hw, device_memory |-> mem]

PLATFORM_PROFILES ==
    << PlatformEntry("Win32", "windows", "Windows NT 10.0; Win64; x64", 8, 8),
       PlatformEntry("Win32", "windows", "Windows NT 10.0; Win64; x64", 12, 16),
       PlatformEntry("Win32", "windows", "Windows NT 10.0; Win64; x64", 16, 32),
       PlatformEntry("MacIntel", "macos", "Macintosh; Intel Mac OS X 10_15_7", 8, 16),
       PlatformEntry("MacIntel", "macos", "Macintosh; Intel Mac OS X 14_0", 10, 16),
       PlatformEntry("Linux x86_64", "linux", "X11; Linux x86_64", 4, 8),
       PlatformEntry("Linux x86_64", "linux", "X11; Linux x86_64", 8, 16) >>

TzEntry(tz, offset, locale) == [tz |-> tz, offset |-> offset, locale |-> locale]

TimezoneKeys == {"US", "EU", "default"}

TIMEZONE_MAP ==
    [k \in TimezoneKeys |->
        CASE k = "US" -> << TzEntry("America/New_York", -300, "en-US"),
                            TzEntry("America/Chicago", -360, "en-US"),
                            TzEntry("America/Los_Angeles", -480, "en-US") >>
          [] k = "EU" -> << TzEntry("Europe/London", 0, "en-GB"),
                            TzEntry("Europe/Berlin", 60, "de-DE"),
                            TzEntry("Europe/Paris", 60, "fr-FR") >>
          [] OTHER    -> << TzEntry("America/New_York", -300, "en-US") >>]

FontKeys == {"windows", "macos", "linux"}

FONT_SETS ==
    [k \in FontKeys |->
        CASE k = "windows" ->
               << "Arial", "Calibri", "Cambria", "Comic Sans MS", "Consolas",
                  "Courier New", "Georgia", "Impact", "Lucida Console",
                  "Microsoft Sans Serif", "Palatino Linotype", "Segoe UI",
                  "Tahoma", "Times New Roman", "Trebuchet MS", "Verdana" >>
          [] k = "macos" ->
               << "Arial", "Avenir", "Courier New", "Georgia", "Helvetica",
                  "Helvetica Neue", "Lucida Grande", "Menlo", "Monaco",
                  "Palatino", "SF Pro Display", "SF Pro Text",
                  "Times New Roman", "Trebuchet MS", "Verdana" >>
          [] OTHER ->
               << "Arial", "Courier New", "DejaVu Sans", "DejaVu Serif",
                  "FreeMono", "FreeSans", "Georgia", "Liberation Mono",
                  "Liberation Sans", "Liberation Serif", "Noto Sans",
                  "Times New Roman", "Ubuntu", "Verdana" >>]

\* dict.get(key, default) on the two string-keyed tables.
FontList(os) ==
    IF os \in FontKeys THEN FONT_SETS[os] ELSE FONT_SETS["windows"]

(***************************************************************************)
(* _generate_fingerprint_profile(region): the five random draws are the    *)
(* parameters (catalogue indices, the randint result, the audio draw kept  *)
(* in units of 1e-8).  The canvas seed can reach 2**31, so it is kept as   *)
(* hi * 2**16 + lo.                                                        *)
(***************************************************************************)
Big(hi, lo) == [hi |-> hi, lo |-> lo]

BigLess(a, b) == a.hi < b.hi \/ (a.hi = b.hi /\ a.lo < b.lo)

BigLeq(a, b) == a = b \/ BigLess(a, b)

\* random.randint(a, b): an integer N with a <= N <= b, both ends included.
RandIntBig(a, b, samples) == {n \in samples : BigLeq(a, n) /\ BigLeq(n, b)}

\* Variant: the pool looked up with TIMEZONE_MAP[region] semantics, no default.
TimezoneListStrict(region) ==
    IF region \in TimezoneKeys THEN TIMEZONE_MAP[region] ELSE << >>

TimezoneList(region) ==
    IF region \in TimezoneKeys THEN TIMEZONE_MAP[region] ELSE TIMEZONE_MAP["default"]

\* Variant: the font list is not looked up by the drawn platform's OS.
GenerateWindowsFonts(region, w, s, p, t, canvas_seed, audio_seed) ==
    LET platform == PLATFORM_PROFILES[p]
    IN  [webgl |-> WEBGL_PROFILES[w], screen |-> SCREEN_PROFILES[s],
         platform |-> platform, timezone |-> TimezoneList(region)[t],
         fonts |-> FONT_SETS["windows"],
         canvas_seed |-> canvas_seed, audio_seed |-> audio_seed,
         hw_concurrency |-> platform.hw_concurrency,
         device_memory |-> platform.device_memory]

_generate_fingerprint_profile(region, w, s, p, t, canvas_seed, audio_seed) ==
    LET webgl    == WEBGL_PROFILES[w]
        screen   == SCREEN_PROFILES[s]
        platform == PLATFORM_PROFILES[p]
        tz       == TimezoneList(region)[t]
        fonts    == FontList(platform.os)
    IN  [webgl |-> webgl, screen |-> screen, platform |-> platform,
         timezone |-> tz, fonts |-> fonts,
         canvas_seed |-> canvas_seed, audio_seed |-> audio_seed,
         hw_concurrency |-> platform.hw_concurrency,
         device_memory |-> platform.device_memory]

(***************************************************************************)
(* Process state.                                                          *)
(*   pc               position of the engine process                       *)
(*   config           startup configuration (environment)                  *)
(*   stealth_profile  global _stealth_profile ({} before start)            *)
(*   browser, display the two global handles ("None" or the object)        *)
(*   browserProc      the Chrome process: "none", "running", "quit"        *)
(*   displayProc      the Xvfb process: "none", "running", "stopped"       *)
(*   use_headless_new whether --headless=new was put on the command line   *)
(*   cdp              outcome of the three CDP startup calls               *)
(*   startResult      what start() returned (NoResult before it returns)   *)
(*   lines            the input lines read so far                          *)
(*   cur              the line being processed                             *)
(*   stdout           the lines written to the output stream               *)
(*   exc              the exception caught or propagated last              *)
(*   browserOps       number of calls issued to the driver by commands     *)
(*   gen              a stand-alone call of the profile generator          *)
(*   page             a document the stealth script runs in                *)
(*   gesture          a call of one human-behaviour helper                 *)
(***************************************************************************)
VARIABLES pc, config, stealth_profile, browser, display, browserProc,
          displayProc, use_headless_new, cdp, startResult, lines, cur,
          stdout, exc, browserOps, gen, page, gesture, server

vars == << pc, config, stealth_profile, browser, display, browserProc,
           displayProc, use_headless_new, cdp, startResult, lines, cur,
           stdout, exc, browserOps, gen, page, gesture, server >>

\* The engine process.
engine == << pc, config, stealth_profile, browser, display, browserProc,
             displayProc, use_headless_new, cdp, startResult, lines, cur,
             stdout, exc, browserOps >>

\* What no step of the engine process changes.
fixed == << config, gen, page, gesture, server >>

\* The handles and processes a command handler can reach.
session == << stealth_profile, browser, display, browserProc, displayProc >>

EmptyDict == << >>
None == "<None>"
NoResult == << >>
NoLine == [kind |-> "none", cmd |-> EmptyDict]

\* Values the environment settings can take: AUTOMATE_HEADLESS, AUTOMATE_REGION,
\* and whether the pyvirtualdisplay import succeeded (_Display is not None).
Headless == {"", "new"}
Regions == {"US", "EU", "ZZ"}

\* The random draws start() is explored with: catalogue indices and seeds.
DrawWebgl == {9}
DrawScreen == {1}
DrawPlatform == {1, 4}
DrawCanvasSeed == {Big(0, 1)}
DrawAudioSeed == {5000}

NoGen == [status |-> "none"]
NoPage == [status |-> "none"]
NoGesture == [status |-> "none"]
NoServer == [status |-> "none"]

\* The module globals as the import leaves them.
EngineFresh ==
    /\ stealth_profile = EmptyDict
    /\ browser = "None"
    /\ display = "None"
    /\ browserProc = "none"
    /\ displayProc = "none"
    /\ use_headless_new = FALSE
    /\ cdp = [tz |-> "not_attempted", locale |-> "not_attempted",
              script |-> "not_attempted"]
    /\ startResult = NoResult
    /\ lines = << >>
    /\ cur = NoLine
    /\ stdout = << >>
    /\ exc = "none"
    /\ browserOps = 0

Init ==
    /\ pc = "start"
    /\ config \in [headless : Headless, region : Regions, has_display_lib : BOOLEAN]
    /\ EngineFresh
    /\ gen = NoGen
    /\ page = NoPage
    /\ gesture = NoGesture
    /\ server = NoServer

(***************************************************************************)
(* start(): engine.py 607-781, one action per step that can fail.          *)
(***************************************************************************)
\* An exception leaving start(): __main__ has no handler around the call, so the
\* interpreter prints the traceback on stderr and the process ends.
StartRaise(e) ==
    /\ pc' = "crashed"
    /\ exc' = e

\* 620-625: the profile is drawn and stored in the global.
StartGenerate ==
    /\ pc = "start"
    /\ \E w \in DrawWebgl, s \in DrawScreen, p \in DrawPlatform,
          t \in 1..Len(TimezoneList(config.region)),
          cs \in DrawCanvasSeed, as \in DrawAudioSeed :
          stealth_profile' =
              _generate_fingerprint_profile(config.region, w, s, p, t, cs, as)
    /\ pc' = "display"
    /\ UNCHANGED << fixed, browser, display, browserProc, displayProc,
                    use_headless_new, cdp, startResult, lines, cur, stdout,
                    exc, browserOps >>

\* Variant: the display is tried whatever the headless option says.
StartDisplayAlways ==
    /\ pc = "display"
    /\ \/ /\ display' = "Display"
          /\ displayProc' = "running"
          /\ use_headless_new' = (config.headless = "new")
       \/ /\ display' = "None"
          /\ displayProc' = "none"
          /\ use_headless_new' = TRUE
    /\ pc' = "launch"
    /\ UNCHANGED << fixed, stealth_profile, browser, browserProc, cdp,
                    startResult, lines, cur, stdout, exc, browserOps >>

\* 631-647: headless strategy and Xvfb acquisition with fallback.
StartDisplay ==
    /\ pc = "display"
    /\ IF config.headless = "new" \/ ~config.has_display_lib
       THEN /\ use_headless_new' = TRUE
            /\ UNCHANGED << display, displayProc >>
       ELSE \/ /\ display' = "Display"          \* display.start() succeeded
               /\ displayProc' = "running"
               /\ use_headless_new' = FALSE
            \/ /\ display' = "None"             \* _Display() or start() raised
               /\ displayProc' = "none"
               /\ use_headless_new' = TRUE
    /\ pc' = "launch"
    /\ UNCHANGED << fixed, stealth_profile, browser, browserProc, cdp,
                    startResult, lines, cur, stdout, exc, browserOps >>

\* 724-730: uc.Chrome with version_main=144, then once more without it.  A
\* constructor that raises is taken to leave no browser process behind.
StartLaunch ==
    /\ pc = "launch"
    /\ \/ /\ browser' = "Chrome"                \* pinned attempt succeeded
          /\ browserProc' = "running"
          /\ pc' = "stealth"
          /\ UNCHANGED exc
       \/ /\ browser' = "Chrome"                \* pinned failed, unpinned succeeded
          /\ browserProc' = "running"
          /\ pc' = "stealth"
          /\ UNCHANGED exc
       \/ /\ StartRaise("LaunchError")          \* both attempts raised
          /\ UNCHANGED << browser, browserProc >>
    /\ UNCHANGED << fixed, stealth_profile, display, displayProc,
                    use_headless_new, cdp, startResult, lines, cur, stdout,
                    browserOps >>

\* 733-741: selenium-stealth applied to the launched browser.
StartStealth ==
    /\ pc = "stealth"
    /\ \/ /\ pc' = "cdp_tz"
          /\ UNCHANGED exc
       \/ StartRaise("StealthError")
    /\ UNCHANGED << fixed, stealth_profile, browser, display, browserProc,
                    displayProc, use_headless_new, cdp, startResult, lines,
                    cur, stdout, browserOps >>

\* Variant: the CDP call outside any try block, a rejection leaves start().
CdpAborting(at, field, next) ==
    /\ pc = at
    /\ \/ /\ cdp' = [cdp EXCEPT ![field] = "ok"]
          /\ pc' = next
          /\ UNCHANGED exc
       \/ /\ cdp' = [cdp EXCEPT ![field] = "rejected"]
          /\ StartRaise("CdpError")
    /\ UNCHANGED << fixed, stealth_profile, browser, display, browserProc,
                    displayProc, use_headless_new, startResult, lines, cur,
                    stdout, browserOps >>

\* A CDP call wrapped in try/except Exception: pass.
CdpBestEffort(at, field, next) ==
    /\ pc = at
    /\ \E outcome \in {"ok", "rejected"} :
          cdp' = [cdp EXCEPT ![field] = outcome]
    /\ pc' = next
    /\ UNCHANGED << fixed, stealth_profile, browser, display, browserProc,
                    displayProc, use_headless_new, startResult, lines, cur,
                    stdout, exc, browserOps >>

\* 744-750: Emulation.setTimezoneOverride.
StartCdpTimezone == CdpBestEffort("cdp_tz", "tz", "cdp_locale")

\* 753-759: Emulation.setLocaleOverride.
StartCdpLocale == CdpBestEffort("cdp_locale", "locale", "cdp_script")

\* 762-769: Page.addScriptToEvaluateOnNewDocument with the stealth script.
StartInjectScript == CdpBestEffort("cdp_script", "script", "resize")

\* f"{width}x{height}"
ScreenString(screen) == ToString(screen.width) \o "x" \o ToString(screen.height)

\* 772-781: the value start() returns.
StartReturnValue(profile) ==
    [success |-> TRUE,
     profile |-> [platform |-> profile.platform.platform,
                  screen   |-> ScreenString(profile.screen),
                  webgl    |-> profile.webgl.renderer,
                  timezone |-> profile.timezone.tz,
                  locale   |-> profile.timezone.locale]]

\* 771-781: set_window_size, then the return.
StartResize ==
    /\ pc = "resize"
    /\ \/ /\ startResult' = StartReturnValue(stealth_profile)
          /\ pc' = "ready"
          /\ UNCHANGED exc
       \/ /\ StartRaise("ResizeError")
          /\ UNCHANGED startResult
    /\ UNCHANGED << fixed, stealth_profile, browser, display, browserProc,
                    displayProc, use_headless_new, cdp, lines, cur, stdout,
                    browserOps >>

start ==
    \/ StartGenerate
    \/ StartDisplay
    \/ StartLaunch
    \/ StartStealth
    \/ StartCdpTimezone
    \/ StartCdpLocale
    \/ StartInjectScript
    \/ StartResize

(***************************************************************************)
(* Input lines.  A line is blank (empty after strip), malformed (json.loads*)
(* raises), valid JSON that is not an object, or an object: the command    *)
(* dict, a function from the keys present to their values.                 *)
(***************************************************************************)
BlankLine == [kind |-> "blank", cmd |-> EmptyDict]
MalformedLine == [kind |-> "malformed", cmd |-> EmptyDict]
NonObjectLine == [kind |-> "nonobject", cmd |-> EmptyDict]
CommandLine(cmd) == [kind |-> "object", cmd |-> cmd]

Commands ==
    { [action |-> "navigate", url |-> "http://a.test/"],
      [action |-> "navigate"],
      [action |-> "get_stealth_profile"],
      [action |-> "local_storage_get"],
      [action |-> "close"],
      [action |-> "bogus"],
      [url |-> "http://a.test/"] }

InputLines ==
    {BlankLine, MalformedLine, NonObjectLine} \cup {CommandLine(c) : c \in Commands}

\* The actions the modelled branches of handle_command answer to.
HandledActions ==
    {"navigate", "get_stealth_profile", "local_storage_get", "close",
     "human_click", "human_type"}

\* dict.get(key): the value, or None when the key is absent.
DictGet(d, key) == IF key \in DOMAIN d THEN d[key] ELSE None

\* str(x) of an action value: None prints as "None".
PyStr(x) == IF x = None THEN "None" ELSE x

(***************************************************************************)
(* Output lines.  print(text) writes a text line; print(json.dumps(d))     *)
(* writes the JSON encoding of d, which the reader decodes back to d.      *)
(***************************************************************************)
TextLine(text) == [fmt |-> "text", body |-> text]

JsonDumps(d) == [fmt |-> "json", body |-> d]

\* What a driver call can hand back that json.dumps cannot encode.
WebElement == "<WebElement>"

\* json.dumps raises TypeError on a value it cannot encode.
Serialisable(result) ==
    ~("data" \in DOMAIN result /\ result.data = WebElement)

\* traceback.format_exc()
FormatExc(e) == "Traceback (most recent call last): " \o e

(***************************************************************************)
(* __main__: engine.py 2053-2078.                                          *)
(***************************************************************************)
\* 2055: the banner written once start() has returned.
MainReady ==
    /\ pc = "ready"
    /\ stdout' = Append(stdout, TextLine("READY"))
    /\ pc' = "read"
    /\ UNCHANGED << fixed, stealth_profile, browser, display, browserProc,
                    displayProc, use_headless_new, cdp, startResult, lines,
                    cur, exc, browserOps >>

\* 2057-2060: the next line of stdin; a blank one is skipped.
ReadLine ==
    /\ pc = "read"
    /\ Len(lines) < MaxLines
    /\ \E line \in InputLines :
          /\ lines' = Append(lines, line)
          /\ IF line.kind = "blank"
             THEN UNCHANGED << pc, cur >>
             ELSE /\ pc' = "dispatch"
                  /\ cur' = line
    /\ exc' = "none"
    /\ UNCHANGED << fixed, stealth_profile, browser, display, browserProc,
                    displayProc, use_headless_new, cdp, startResult, stdout,
                    browserOps >>

\* 2057: stdin at end-of-file: the for loop ends and the script with it.
ReadEOF ==
    /\ pc = "read"
    /\ pc' = "exited"
    /\ UNCHANGED << fixed, stealth_profile, browser, display, browserProc,
                    displayProc, use_headless_new, cdp, startResult, lines,
                    cur, stdout, exc, browserOps >>

\* Variant: the loop catches only the JSON decoding error.
LoopExceptJsonOnly(e) ==
    IF e = "JSONDecodeError"
    THEN /\ stdout' = Append(stdout, JsonDumps([success |-> FALSE, error |-> e,
                                                traceback |-> FormatExc(e)]))
         /\ exc' = e
         /\ pc' = "read"
    ELSE /\ UNCHANGED stdout
         /\ exc' = e
         /\ pc' = "crashed"

\* 2068-2078: the except branch of the loop body.
LoopExcept(e) ==
    /\ stdout' = Append(stdout, JsonDumps([success |-> FALSE, error |-> e,
                                           traceback |-> FormatExc(e)]))
    /\ exc' = e
    /\ pc' = "read"

\* Variant: a failing result is dropped instead of written.
LoopPrintSuccessOnly(result) ==
    IF Serialisable(result)
    THEN /\ stdout' = IF result.success THEN Append(stdout, JsonDumps(result))
                      ELSE stdout
         /\ UNCHANGED exc
         /\ pc' = IF DictGet(cur.cmd, "action") = "close" THEN "exited" ELSE "read"
    ELSE LoopExcept("TypeError")

\* 2064-2067: the result is encoded and written; after a close the process exits.
LoopPrint(result) ==
    IF Serialisable(result)
    THEN /\ stdout' = Append(stdout, JsonDumps(result))
         /\ UNCHANGED exc
         /\ pc' = IF DictGet(cur.cmd, "action") = "close" THEN "exited" ELSE "read"
    ELSE LoopExcept("TypeError")

\* 2062: json.loads raises on a malformed line.
LoopJsonError ==
    /\ pc = "dispatch"
    /\ cur.kind = "malformed"
    /\ LoopExcept("JSONDecodeError")
    /\ UNCHANGED << fixed, session, use_headless_new, cdp, startResult, lines,
                    cur, browserOps >>

(***************************************************************************)
(* handle_command: engine.py 986-2047.  A handler that returns hands its   *)
(* result to LoopPrint; one that raises lands in LoopExcept.               *)
(***************************************************************************)
\* 988: cmd.get on a decoded value that is no dict raises AttributeError.
HandleNonObject ==
    /\ pc = "dispatch"
    /\ cur.kind = "nonobject"
    /\ LoopExcept("AttributeError")
    /\ UNCHANGED << fixed, session, use_headless_new, cdp, startResult, lines,
                    cur, browserOps >>

IsCommand(action) ==
    /\ pc = "dispatch"
    /\ cur.kind = "object"
    /\ DictGet(cur.cmd, "action") = action

\* 991-995: navigate.
HandleNavigate ==
    /\ IsCommand("navigate")
    /\ \/ /\ "url" \notin DOMAIN cur.cmd        \* cmd["url"] raises KeyError
          /\ LoopExcept("KeyError")
          /\ UNCHANGED browserOps
       \/ /\ "url" \in DOMAIN cur.cmd           \* browser.get raises
          /\ browserOps' = browserOps + 1
          /\ LoopExcept("WebDriverException")
       \/ /\ "url" \in DOMAIN cur.cmd           \* get, title, current_url
          /\ browserProc = "running"
          /\ browserOps' = browserOps + 3
          /\ LoopPrint([success |-> TRUE, title |-> "title", url |-> cur.cmd.url])
    /\ UNCHANGED << fixed, session, use_headless_new, cdp, startResult, lines, cur >>

\* Variant: the whole profile dict is handed out, seeds included.
GetStealthProfileResultLeaky(profile) ==
    [success |-> TRUE,
     profile |->
        [platform |-> profile.platform.platform,
         screen |-> ScreenString(profile.screen),
         webgl_vendor |-> profile.webgl.vendor,
         webgl_renderer |-> profile.webgl.renderer,
         timezone |-> profile.timezone.tz,
         locale |-> profile.timezone.locale,
         hw_concurrency |-> profile.hw_concurrency,
         device_memory |-> profile.device_memory,
         canvas_seed |-> profile.canvas_seed,
         audio_seed |-> profile.audio_seed]]

\* 1011-1025: the value get_stealth_profile returns.
GetStealthProfileResult(profile) ==
    [success |-> TRUE,
     profile |->
        [platform |-> IF "platform" \in DOMAIN profile
                      THEN profile.platform.platform ELSE "unknown",
         screen |-> IF "screen" \in DOMAIN profile
                    THEN ScreenString(profile.screen) ELSE "0x0",
         webgl_vendor |-> IF "webgl" \in DOMAIN profile
                          THEN profile.webgl.vendor ELSE "",
         webgl_renderer |-> IF "webgl" \in DOMAIN profile
                            THEN profile.webgl.renderer ELSE "",
         timezone |-> IF "timezone" \in DOMAIN profile
                      THEN profile.timezone.tz ELSE "",
         locale |-> IF "timezone" \in DOMAIN profile
                    THEN profile.timezone.locale ELSE "",
         hw_concurrency |-> IF "hw_concurrency" \in DOMAIN profile
                            THEN profile.hw_concurrency ELSE 0,
         device_memory |-> IF "device_memory" \in DOMAIN profile
                           THEN profile.device_memory ELSE 0]]

\* Variant: the handler draws a fresh profile before answering.
HandleGetStealthProfileRedraw ==
    /\ IsCommand("get_stealth_profile")
    /\ \E t \in 1..Len(TimezoneList(config.region)) :
          stealth_profile' =
              _generate_fingerprint_profile(config.region, 1, 1, 6, t, Big(0, 1), 5000)
    /\ LoopPrint(GetStealthProfileResult(stealth_profile'))
    /\ UNCHANGED << fixed, browser, display, browserProc, displayProc,
                    use_headless_new, cdp, startResult, lines, cur, browserOps >>

\* 1010-1025: get_stealth_profile.
HandleGetStealthProfile ==
    /\ IsCommand("get_stealth_profile")
    /\ LoopPrint(GetStealthProfileResult(stealth_profile))
    /\ UNCHANGED << fixed, session, use_headless_new, cdp, startResult, lines,
                    cur, browserOps >>

\* 1315-1319: local_storage_get: whatever execute_script hands back is returned.
HandleLocalStorageGet ==
    /\ IsCommand("local_storage_get")
    /\ browserOps' = browserOps + 1
    /\ \/ LoopExcept("WebDriverException")
       \/ /\ browserProc = "running"
          /\ \E data \in {"{}", WebElement} :
                LoopPrint([success |-> TRUE, data |-> data])
    /\ UNCHANGED << fixed, session, use_headless_new, cdp, startResult, lines, cur >>

\* 2040-2044: close.
HandleClose ==
    /\ IsCommand("close")
    /\ browserOps' = browserOps + 1
    /\ \/ /\ LoopExcept("WebDriverException")   \* browser.quit() raises
          /\ UNCHANGED << browserProc, displayProc >>
       \/ /\ browserProc' = "quit"
          /\ IF display # "None"
             THEN \/ /\ displayProc' = "stopped"
                     /\ LoopPrint([success |-> TRUE])
                  \/ /\ LoopExcept("DisplayError")   \* display.stop() raises
                     /\ UNCHANGED displayProc
             ELSE /\ LoopPrint([success |-> TRUE])
                  /\ UNCHANGED displayProc
    /\ UNCHANGED << fixed, stealth_profile, browser, display, use_headless_new,
                    cdp, startResult, lines, cur >>

\* Variant: the default branch raises instead of returning.
HandleUnknownRaises ==
    /\ pc = "dispatch"
    /\ cur.kind = "object"
    /\ DictGet(cur.cmd, "action") \notin HandledActions
    /\ LoopExcept("ValueError")
    /\ UNCHANGED << fixed, session, use_headless_new, cdp, startResult, lines,
                    cur, browserOps >>

\* 2046-2047: no branch matched.
HandleUnknown ==
    /\ pc = "dispatch"
    /\ cur.kind = "object"
    /\ DictGet(cur.cmd, "action") \notin HandledActions
    /\ LoopPrint([success |-> FALSE,
                  error |-> "Unknown action: " \o PyStr(DictGet(cur.cmd, "action"))])
    /\ UNCHANGED << fixed, session, use_headless_new, cdp, startResult, lines,
                    cur, browserOps >>

handle_command ==
    \/ HandleNonObject
    \/ HandleNavigate
    \/ HandleGetStealthProfile
    \/ HandleLocalStorageGet
    \/ HandleClose
    \/ HandleUnknown

Next ==
    \/ start
    \/ MainReady
    \/ ReadLine
    \/ ReadEOF
    \/ LoopJsonError
    \/ handle_command

Spec == Init /\ [][Next]_vars

(***************************************************************************)
(* The profile generator on its own: _generate_fingerprint_profile called  *)
(* with a region, over every catalogue entry.                              *)
(***************************************************************************)
\* Region values a caller can pass: the table keys and values that are none.
GenRegions == {"US", "EU", "default", "ZZ", "us", ""}

\* Integers around the ends of the randint range of the canvas seed.
CanvasSeedSamples ==
    { Big(0, 0), Big(0, 1), Big(0, 2), Big(16384, 0), Big(32767, 65535),
      Big(32768, 0), Big(32768, 1) }

\* random.random() * 0.0001 in units of 1e-8.
AudioSeedDraws == {0, 5000, 9999}

\* The engine process is not running.
EngineOff ==
    /\ pc = "off"
    /\ config = [headless |-> "", region |-> "US", has_display_lib |-> FALSE]
    /\ EngineFresh

GenInit ==
    /\ EngineOff
    /\ gen \in {[status |-> "idle", region |-> r] : r \in GenRegions}
    /\ page = NoPage
    /\ gesture = NoGesture
    /\ server = NoServer

\* 294-317: one call.  random.choice raises IndexError on an empty list;
\* random.randint(1, 2**31) draws the canvas seed.
Generate ==
    /\ gen.status = "idle"
    /\ LET tz_list == TimezoneList(gen.region) IN
       IF Len(tz_list) = 0
       THEN gen' = [status |-> "failed", region |-> gen.region]
       ELSE \E w \in 1..Len(WEBGL_PROFILES), s \in 1..Len(SCREEN_PROFILES),
               p \in 1..Len(PLATFORM_PROFILES), t \in 1..Len(tz_list),
               cs \in RandIntBig(Big(0, 1), Big(32768, 0), CanvasSeedSamples),
               as \in AudioSeedDraws :
               gen' = [status |-> "done", region |-> gen.region,
                       draw |-> [w |-> w, s |-> s, p |-> p, t |-> t],
                       profile |-> _generate_fingerprint_profile(
                                       gen.region, w, s, p, t, cs, as)]
    /\ UNCHANGED << engine, page, gesture, server >>

GenNext == Generate

SpecGen == GenInit /\ [][GenNext]_vars

(***************************************************************************)
(* The stealth script of _build_stealth_js running in one document: the    *)
(* webdriver patch, the canvas read-back wrappers and the audio wrapper.   *)
(***************************************************************************)
MaxRuns == 2
MaxReads == 3

\* Red bytes a page can have drawn at data indexes 0 and 4.
PixelValues == {0, 100, 255}

\* Math.floor(noise(seed, i) * 1.5) with noise in [-1, 1).
NoiseValues == {-2, -1, 0, 1}

\* audioSeed * (Math.sin(i * 0.01) * 0.00001) at sample indexes 0 and 1, in
\* units of the smallest increment: sin(0) = 0, and audio_seed may be 0.0.
AudioIncrements == {<< 0, 0 >>, << 0, 5 >>}

\* Math.max(0, Math.min(255, v))
Clamp(v) == IF v < 0 THEN 0 ELSE IF v > 255 THEN 255 ELSE v

\* 495-497: the loop over every fourth byte of the image data.
AddNoise(data, noise) == [i \in DOMAIN data |-> Clamp(data[i] + noise[i])]

\* 492-501: a wrapper reads the pixels, adds the noise, writes them back with
\* putImageData and calls the method it captured, which is the wrapper
\* underneath when the script ran more than once.
RECURSIVE PatchedReadBack(_, _, _)
PatchedReadBack(data, noise, wrap) ==
    IF wrap = 0 THEN data
    ELSE PatchedReadBack(AddNoise(data, noise), noise, wrap - 1)

\* 527-530: data[i] += increment, on the buffer's own storage.
RECURSIVE PatchedChannelData(_, _, _)
PatchedChannelData(data, inc, wrap) ==
    IF wrap = 0 THEN data
    ELSE PatchedChannelData([i \in DOMAIN data |-> data[i] + inc[i]], inc, wrap - 1)

PageInit ==
    /\ EngineOff
    /\ gen = NoGen
    /\ gesture = NoGesture
    /\ server = NoServer
    /\ page \in {[status |-> "open", runs |-> 0, threw |-> FALSE,
                  webdriver_own |-> FALSE, wrap |-> 0,
                  canvas |-> << a, b >>, noise |-> << n1, n2 >>, reads |-> << >>,
                  audio |-> << 0, 0 >>, audio_inc |-> inc, audio_reads |-> << >>] :
                    a \in PixelValues, b \in PixelValues,
                    n1 \in NoiseValues, n2 \in NoiseValues,
                    inc \in AudioIncrements}

\* 332-600: the script runs in the document.  Its first statement defines
\* navigator.webdriver as an own accessor property without configurable: true;
\* defining it again with another getter function is a TypeError, which ends
\* the script there.  A run that gets past it wraps every method once more.
RunStealthScript ==
    /\ page.status = "open"
    /\ page.runs < MaxRuns
    /\ IF page.webdriver_own
       THEN page' = [page EXCEPT !.runs = @ + 1, !.threw = TRUE]
       ELSE page' = [page EXCEPT !.runs = @ + 1, !.webdriver_own = TRUE,
                                 !.wrap = @ + 1, !.reads = << >>,
                                 !.audio_reads = << >>]
    /\ UNCHANGED << engine, gen, gesture, server >>

\* The page draws on its canvas.
PageDraw ==
    /\ page.status = "open"
    /\ \E a \in PixelValues, b \in PixelValues :
          /\ << a, b >> # page.canvas
          /\ page' = [page EXCEPT !.canvas = << a, b >>, !.reads = << >>]
    /\ UNCHANGED << engine, gen, gesture, server >>

\* 489-515: canvas.toDataURL() / canvas.toBlob() on a 2d canvas; the output
\* encodes the pixels the canvas holds when the original method runs.
CanvasReadBack(method) ==
    /\ page.status = "open"
    /\ Len(page.reads) < MaxReads
    /\ LET out == PatchedReadBack(page.canvas, page.noise, page.wrap) IN
       page' = [page EXCEPT !.canvas = out, !.reads = Append(@, out)]
    /\ UNCHANGED << engine, gen, gesture, server >>

\* 525-532: audioBuffer.getChannelData(0)
GetChannelData ==
    /\ page.status = "open"
    /\ Len(page.audio_reads) < MaxReads
    /\ LET out == PatchedChannelData(page.audio, page.audio_inc, page.wrap) IN
       page' = [page EXCEPT !.audio = out, !.audio_reads = Append(@, out)]
    /\ UNCHANGED << engine, gen, gesture, server >>

PageNext ==
    \/ RunStealthScript
    \/ PageDraw
    \/ \E method \in {"toDataURL", "toBlob"} : CanvasReadBack(method)
    \/ GetChannelData

SpecPage == PageInit /\ [][PageNext]_vars

(***************************************************************************)
(* The human-like interaction helpers: _bezier_curve, _human_move_to,      *)
(* _human_type_text and _human_scroll, one call at a time.                 *)
(***************************************************************************)
\* random.randint(a, b) on small integers.
RandInt(a, b) == a..b

\* The two ends of random.randint(a, b).
RandIntEnds(a, b) == IF a <= b THEN {a, b} ELSE {}

\* int(num / den) for den > 0: truncation toward zero.
PyInt(num, den) == IF num >= 0 THEN num \div den ELSE -((-num) \div den)

\* element.location (rounded to integers by the driver) and element.size.
ElementLocations == {<< 0, 0 >>, << 300, 200 >>}
ElementSizes == {<< 0, 0 >>, << 5, 3 >>, << 100, 40 >>}

\* 931-932: (random.randint(100, 800), random.randint(100, 500)), the corners.
StartPoints == {<< x, y >> : x \in RandIntEnds(100, 800), y \in RandIntEnds(100, 500)}

\* 885-904: one control-point draw per axis: the uniform factors in tenths
\* (0.1..0.4 and 0.6..0.9) and the integer offsets (-50..50 and -30..30).
ControlDraws ==
    { [f1 |-> 1, r1 |-> -50, f2 |-> 6, r2 |-> -30],
      [f1 |-> 2, r1 |-> 0, f2 |-> 7, r2 |-> 0],
      [f1 |-> 4, r1 |-> 50, f2 |-> 9, r2 |-> 30] }

\* 907-911: one coordinate of point i of n, with t = i/n and u = 1 - t, the
\* cubic evaluated over the common denominator 10 * n^3 and cut by int().
BezierCoord(s, e, c, i, n) ==
    LET cx1 == 10 * s + c.f1 * (e - s) + 10 * c.r1
        cx2 == 10 * s + c.f2 * (e - s) + 10 * c.r2
        u == n - i
    IN  PyInt(u * u * u * 10 * s + 3 * u * u * i * cx1
                + 3 * u * i * i * cx2 + i * i * i * 10 * e,
              10 * n * n * n)

\* Variant: the loop runs over range(steps) and stops one point short.
BezierOpenEnded(start_pt, end_pt, steps, cx, cy) ==
    [k \in 1..steps |->
        << BezierCoord(start_pt[1], end_pt[1], cx, k - 1, steps),
           BezierCoord(start_pt[2], end_pt[2], cy, k - 1, steps) >>]

\* 882-913
_bezier_curve(start_pt, end_pt, steps, cx, cy) ==
    [k \in 1..(steps + 1) |->
        << BezierCoord(start_pt[1], end_pt[1], cx, k - 1, steps),
           BezierCoord(start_pt[2], end_pt[2], cy, k - 1, steps) >>]

Idle == [status |-> "idle", kind |-> "none"]

GestureInit ==
    /\ EngineOff
    /\ gen = NoGen
    /\ page = NoPage
    /\ gesture = Idle
    /\ server = NoServer

\* Where the browser's pointer really is when the helper is called: the
\* origin of a fresh session, or where an earlier gesture left it.
PointerPositions == {<< 0, 0 >>, << 350, 220 >>, << 800, 500 >>}

\* The window the pointer has to stay in: the first screen profile.
Viewport == << SCREEN_PROFILES[1].width, SCREEN_PROFILES[1].height >>

InViewport(pt) ==
    /\ 0 <= pt[1] /\ pt[1] <= Viewport[1]
    /\ 0 <= pt[2] /\ pt[2] <= Viewport[2]

\* 937-944: the chain moves the pointer by points[0] - start and then by
\* the difference of each point to the one before, so that after point i
\* the pointer is i's offset from the assumed start away from where it was.
PointerAfter(pointer, start_pt, points, i) ==
    << pointer[1] + points[i][1] - start_pt[1],
       pointer[2] + points[i][2] - start_pt[2] >>

\* Where ActionChains.move_to_element puts the pointer.
ElementCentre(loc, size) ==
    << loc[1] + PyInt(size[1], 2), loc[2] + PyInt(size[2], 2) >>

\* 916-949: _human_move_to when reading the element works.  A move that
\* would leave the window makes perform() raise, which the except branch
\* answers with the plain move_to_element.
HumanMoveTo ==
    /\ gesture = Idle
    /\ \E loc \in ElementLocations, size \in ElementSizes, start_pt \in StartPoints,
          steps \in RandInt(15, 30), cx \in ControlDraws, cy \in ControlDraws,
          pointer \in PointerPositions :
          \E ox \in RandIntEnds(PyInt(size[1] * 2, 10), PyInt(size[1] * 8, 10)),
             oy \in RandIntEnds(PyInt(size[2] * 2, 10), PyInt(size[2] * 8, 10)) :
             LET target == << loc[1] + ox, loc[2] + oy >>
                 points == _bezier_curve(start_pt, target, steps, cx, cy)
                 inside == \A i \in 1..Len(points) :
                              InViewport(PointerAfter(pointer, start_pt, points, i))
             IN  gesture' = [status |-> "done", kind |-> "move",
                             fallback |-> ~inside,
                             loc |-> loc, size |-> size, start |-> start_pt,
                             target |-> target, steps |-> steps,
                             points |-> points,
                             pointer_before |-> pointer,
                             pointer |-> IF inside
                                         THEN PointerAfter(pointer, start_pt, points,
                                                           Len(points))
                                         ELSE ElementCentre(loc, size)]
    /\ UNCHANGED << engine, gen, page, server >>

\* 920-921, 946-949: reading the element raises (it is stale) and so does
\* the move_to_element of the except branch: the exception leaves the helper.
HumanMoveFallback ==
    /\ gesture = Idle
    /\ gesture' = [status |-> "raised", kind |-> "move", fallback |-> TRUE]
    /\ UNCHANGED << engine, gen, page, server >>

\* Texts a human_type command can carry, one character per element.
Texts ==
    { << >>,
      << "H", "i", "!" >>,
      << "a", " ", "B", "." >>,
      << "h", "e", "l", "l", "o", " ", "w", "o", "r", "l", "d" >> }

\* Characters of the texts for which str.isupper() is true.
Uppercase == {"H", "B"}

\* Variant: every character gets the delay range of an ordinary one.
DelayRangeFlat(char) == << 30, 120 >>

\* 956-961: the bounds of the uniform draw after a character, in ms.
DelayRange(char) ==
    IF char \in {" ", ".", ",", "!", "?"} THEN << 80, 200 >>
    ELSE IF char \in Uppercase THEN << 50, 150 >>
    ELSE << 30, 120 >>

\* 963-964: random.random() < 0.05 adds uniform(0.3, 0.8) seconds, else nothing.
ThinkDraws == {0, 300, 800}

\* 1036-1046: the human_type handler up to the call of _human_type_text.
HumanTypeStart ==
    /\ gesture = Idle
    /\ \E text \in Texts, clear \in BOOLEAN :
          gesture' = [status |-> "typing", kind |-> "type", phase |-> "send",
                      text |-> text,
                      prelude |-> IF clear THEN << "click", "CTRL+a", "DELETE" >>
                                  ELSE << >>,
                      events |-> << >>, pauses |-> 0, base |-> 0, think |-> 0]
    /\ UNCHANGED << engine, gen, page, server >>

\* Variant: the rest of the text goes out in one send_keys call.
HumanTypeSendBatch ==
    /\ gesture.kind = "type" /\ gesture.status = "typing" /\ gesture.phase = "send"
    /\ Len(gesture.events) < Len(gesture.text)
    /\ gesture' = [gesture EXCEPT
                      !.events = Append(@, SubSeq(gesture.text, Len(@) + 1,
                                                  Len(gesture.text))),
                      !.phase = "sleep"]
    /\ UNCHANGED << engine, gen, page, server >>

\* 954-955: element.send_keys(char) for the next char of the text; the driver
\* may raise.
HumanTypeSendKeys ==
    /\ gesture.kind = "type" /\ gesture.status = "typing" /\ gesture.phase = "send"
    /\ Len(gesture.events) < Len(gesture.text)
    /\ \/ gesture' = [gesture EXCEPT
                         !.events = Append(@, << gesture.text[Len(@) + 1] >>),
                         !.phase = "sleep"]
       \/ gesture' = [gesture EXCEPT !.status = "raised"]
    /\ UNCHANGED << engine, gen, page, server >>

\* 956-964: the sleep after the character just sent.
HumanTypeSleep ==
    /\ gesture.kind = "type" /\ gesture.status = "typing" /\ gesture.phase = "sleep"
    /\ LET event == gesture.events[Len(gesture.events)]
           range == DelayRange(event[1])
       IN  \E base \in {range[1], range[2]}, think \in ThinkDraws :
              gesture' = [gesture EXCEPT !.pauses = @ + 1, !.base = base,
                                         !.think = think, !.phase = "send"]
    /\ UNCHANGED << engine, gen, page, server >>

\* 954, 1047: the for loop is exhausted and the handler returns.
HumanTypeReturn ==
    /\ gesture.kind = "type" /\ gesture.status = "typing" /\ gesture.phase = "send"
    /\ Len(gesture.events) = Len(gesture.text)
    /\ gesture' = [gesture EXCEPT !.status = "done"]
    /\ UNCHANGED << engine, gen, page, server >>
\* Amounts a human_scroll command can carry.
AmountsGiven == {0, 30, 100, 600}

\* 975: random.uniform(-20, 20), its ends and its middle.
JitterDraws == {-20, 0, 20}

\* 1049-1053, 968-972: the handler passes direction and amount on; a missing
\* amount is drawn from randint(200, 600), the step count from randint(3, 8).
HumanScrollStart ==
    /\ gesture = Idle
    /\ \E direction \in {"down", "up"}, given \in BOOLEAN, steps \in RandInt(3, 8) :
          \E amount \in IF given THEN AmountsGiven ELSE RandIntEnds(200, 600) :
             gesture' = [status |-> "scrolling", kind |-> "scroll",
                         direction |-> direction, given |-> given,
                         amount |-> amount, steps |-> steps,
                         issued |-> 0, pauses |-> 0, step |-> 0]
    /\ UNCHANGED << engine, gen, page, server >>

\* 974-979: one iteration.  step holds steps * step_amount, that is
\* amount + steps * jitter.  Any direction but "down" formats the script as
\* "window.scrollBy(0, -{step_amount});", which for a negative step_amount
\* reads "--..." and is rejected by the browser: execute_script raises.
HumanScrollStep ==
    /\ gesture.kind = "scroll" /\ gesture.status = "scrolling"
    /\ gesture.issued < gesture.steps
    /\ \E jitter \in JitterDraws :
          LET step == gesture.amount + gesture.steps * jitter IN
          IF gesture.direction = "down" \/ step >= 0
          THEN gesture' = [gesture EXCEPT !.issued = @ + 1, !.pauses = @ + 1,
                                          !.step = step]
          ELSE gesture' = [gesture EXCEPT !.issued = @ + 1, !.step = step,
                                          !.status = "raised"]
    /\ UNCHANGED << engine, gen, page, server >>

\* 974, 1053: the loop is exhausted and the handler returns.
HumanScrollReturn ==
    /\ gesture.kind = "scroll" /\ gesture.status = "scrolling"
    /\ gesture.issued = gesture.steps
    /\ gesture' = [gesture EXCEPT !.status = "done"]
    /\ UNCHANGED << engine, gen, page, server >>

GestureNext ==
    \/ HumanMoveTo
    \/ HumanMoveFallback
    \/ HumanTypeStart
    \/ HumanTypeSendKeys
    \/ HumanTypeSleep
    \/ HumanTypeReturn
    \/ HumanScrollStart
    \/ HumanScrollStep
    \/ HumanScrollReturn

SpecGesture == GestureInit /\ [][GestureNext]_vars

(***************************************************************************)
(* The human_click and human_type branches of handle_command, step by      *)
(* step, in a started session, with a page that may remove the element.    *)
(***************************************************************************)
HumanCommands ==
    { [action |-> "human_click", selector |-> "#go"],
      [action |-> "human_type", selector |-> "#q", text |-> << "H", "i" >>],
      [action |-> "human_type", selector |-> "#q", text |-> << "H", "i" >>,
       clear |-> FALSE],
      [action |-> "get_stealth_profile"],
      [action |-> "bogus"] }

\* The profile of the session the commands arrive in.
SessionProfile == _generate_fingerprint_profile("US", 9, 1, 1, 1, Big(0, 1), 5000)

\* start() has returned, READY is written, no line has been read.
HumanInit ==
    /\ pc = "read"
    /\ config = [headless |-> "new", region |-> "US", has_display_lib |-> FALSE]
    /\ stealth_profile = SessionProfile
    /\ browser = "Chrome"
    /\ display = "None"
    /\ browserProc = "running"
    /\ displayProc = "none"
    /\ use_headless_new = TRUE
    /\ cdp = [tz |-> "ok", locale |-> "ok", script |-> "ok"]
    /\ startResult = StartReturnValue(SessionProfile)
    /\ lines = << >>
    /\ cur = NoLine
    /\ stdout = << TextLine("READY") >>
    /\ exc = "none"
    /\ browserOps = 0
    /\ gen = NoGen
    /\ page = NoPage
    /\ gesture = Idle
    /\ server = NoServer

\* What a handler step leaves alone besides the loop position and the output.
held == << config, gen, page, server, stealth_profile, browser, display, browserProc,
           displayProc, use_headless_new, cdp, startResult, lines, cur >>

\* 2057-2060: the next line of stdin.
CmdReadLine ==
    /\ pc = "read"
    /\ Len(lines) < MaxLines
    /\ \E c \in HumanCommands :
          /\ lines' = Append(lines, CommandLine(c))
          /\ cur' = CommandLine(c)
    /\ pc' = "dispatch"
    /\ exc' = "none"
    /\ UNCHANGED << fixed, stealth_profile, browser, display, browserProc,
                    displayProc, use_headless_new, cdp, startResult, stdout,
                    browserOps >>

\* The exception of a driver call on the element leaves the handler and is
\* answered by the loop.
CmdRaise(e, stale) ==
    /\ LoopExcept(e)
    /\ gesture' = [gesture EXCEPT !.status = "answered", !.answer = Len(stdout) + 1,
                                  !.touched_stale = @ \/ stale]

\* The handler returns result.
CmdReturn(result) ==
    /\ LoopPrint(result)
    /\ gesture' = [gesture EXCEPT !.status = "answered", !.answer = Len(stdout) + 1]

\* A step inside the handler.
AtStep(step) ==
    /\ pc = "handler"
    /\ gesture.kind = "command"
    /\ gesture.status = "running"
    /\ gesture.step = step

\* 1029, 1037: browser.find_element(...)
CmdFind ==
    /\ \E a \in {"human_click", "human_type"} : IsCommand(a)
    /\ browserOps' = browserOps + 1
    /\ \/ /\ LoopExcept("NoSuchElementException")
          /\ UNCHANGED gesture
       \/ /\ pc' = "handler"
          /\ gesture' =
                [status |-> "running", kind |-> "command",
                 action |-> cur.cmd.action,
                 step |-> IF cur.cmd.action = "human_click" THEN "move_read"
                          ELSE IF "clear" \in DOMAIN cur.cmd /\ cur.cmd.clear = FALSE
                               THEN "char" ELSE "clear",
                 el |-> "attached", sent |-> 0, answer |-> 0,
                 touched_stale |-> FALSE, acted_stale |-> FALSE]
          /\ UNCHANGED << stdout, exc >>
    /\ UNCHANGED held

\* The page removes the element from the document while the handler runs.
PageRemovesElement ==
    /\ pc = "handler"
    /\ gesture.kind = "command" /\ gesture.status = "running"
    /\ gesture.el = "attached"
    /\ gesture' = [gesture EXCEPT !.el = "stale"]
    /\ UNCHANGED << engine, gen, page, server >>

\* 919-926: element.location and element.size inside the try; a stale element
\* raises, which the except branch of the helper catches.
CmdMoveRead ==
    /\ AtStep("move_read")
    /\ browserOps' = browserOps + 1
    /\ IF gesture.el = "stale"
       THEN gesture' = [gesture EXCEPT !.step = "fallback", !.touched_stale = TRUE]
       ELSE gesture' = [gesture EXCEPT !.step = "perform"]
    /\ UNCHANGED << held, pc, stdout, exc >>

\* 937-945: the chain of relative pointer moves; it does not use the element
\* and may raise when a move leaves the window.
CmdMovePerform ==
    /\ AtStep("perform")
    /\ browserOps' = browserOps + 1
    /\ \/ gesture' = [gesture EXCEPT !.step = "click"]
       \/ gesture' = [gesture EXCEPT !.step = "fallback"]
    /\ UNCHANGED << held, pc, stdout, exc >>

\* 946-949: ActionChains(browser).move_to_element(element).perform()
CmdMoveFallback ==
    /\ AtStep("fallback")
    /\ browserOps' = browserOps + 1
    /\ IF gesture.el = "stale"
       THEN CmdRaise("StaleElementReferenceException", TRUE)
       ELSE /\ gesture' = [gesture EXCEPT !.step = "click"]
            /\ UNCHANGED << pc, stdout, exc >>
    /\ UNCHANGED held

\* Variant: a click on an element that is gone is not reported.
CmdClickIgnoresStale ==
    /\ AtStep("click")
    /\ browserOps' = browserOps + 1
    /\ gesture' = [gesture EXCEPT !.step = "result",
                                  !.touched_stale = @ \/ gesture.el = "stale",
                                  !.acted_stale = @ \/ gesture.el = "stale"]
    /\ UNCHANGED << held, pc, stdout, exc >>

\* 1031-1032: el.click()
CmdClick ==
    /\ AtStep("click")
    /\ browserOps' = browserOps + 1
    /\ IF gesture.el = "stale"
       THEN CmdRaise("StaleElementReferenceException", TRUE)
       ELSE /\ gesture' = [gesture EXCEPT !.step = "result"]
            /\ UNCHANGED << pc, stdout, exc >>
    /\ UNCHANGED held

\* 1034: the result with browser.current_url and browser.title.
CmdClickResult ==
    /\ AtStep("result")
    /\ browserOps' = browserOps + 2
    /\ CmdReturn([success |-> TRUE, url |-> "http://a.test/", title |-> "title"])
    /\ UNCHANGED held

\* 1038-1045: el.click(), el.send_keys(CTRL + "a"), el.send_keys(DELETE); the
\* first of them that finds the element stale raises.
CmdTypeClear ==
    /\ AtStep("clear")
    /\ browserOps' = browserOps + 1
    /\ IF gesture.el = "stale"
       THEN CmdRaise("StaleElementReferenceException", TRUE)
       ELSE /\ gesture' = [gesture EXCEPT !.step = "char"]
            /\ UNCHANGED << pc, stdout, exc >>
    /\ UNCHANGED held

\* 954-955: element.send_keys(char) for the next character of cmd["text"].
CmdTypeChar ==
    /\ AtStep("char")
    /\ gesture.sent < Len(cur.cmd.text)
    /\ browserOps' = browserOps + 1
    /\ IF gesture.el = "stale"
       THEN CmdRaise("StaleElementReferenceException", TRUE)
       ELSE /\ gesture' = [gesture EXCEPT !.sent = @ + 1]
            /\ UNCHANGED << pc, stdout, exc >>
    /\ UNCHANGED held

\* 1047: the text is typed.
CmdTypeResult ==
    /\ AtStep("char")
    /\ gesture.sent = Len(cur.cmd.text)
    /\ CmdReturn([success |-> TRUE])
    /\ UNCHANGED << held, browserOps >>

HumanNext ==
    \/ CmdReadLine
    \/ ReadEOF
    \/ CmdFind
    \/ PageRemovesElement
    \/ CmdMoveRead
    \/ CmdMovePerform
    \/ CmdMoveFallback
    \/ CmdClick
    \/ CmdClickResult
    \/ CmdTypeClear
    \/ CmdTypeChar
    \/ CmdTypeResult
    \/ HandleGetStealthProfile
    \/ HandleUnknown

SpecHuman == HumanInit /\ [][HumanNext]_vars

(***************************************************************************)
(* The MCP server (selenium_mcp_server.py): its module globals and the     *)
(* tools start_browser and stop_browser, one action per tool call.         *)
(***************************************************************************)
MaxCalls == 4

\* 60-76: the globals at import.  browserHeld / displayHeld say whether the
\* process behind the recorded handle is running; leakedBrowsers /
\* leakedDisplays count running processes no handle refers to.
ServerFresh ==
    [status |-> "up", calls |-> 0, last |-> "none", result |-> EmptyDict,
     browser |-> "None", browserHeld |-> FALSE, leakedBrowsers |-> 0,
     display |-> "None", displayHeld |-> FALSE, leakedDisplays |-> 0,
     loaded |-> "about:blank", gets |-> 0, ops |-> 0,
     respect_robots_txt |-> TRUE, user_agent |-> "SeleniumMCP",
     robots_cache |-> EmptyDict, fetched |-> << >>,
     captcha_service |-> None, captcha_api_key |-> None,
     captcha_solver |-> None]

\* A tool call returns: the result and the bookkeeping of the call (ops: the
\* browser operations the call issued).
Returned(s, tool, result) ==
    [s EXCEPT !.calls = server.calls + 1, !.last = tool, !.result = result,
              !.ops = s.gets - server.gets]

\* 344-349: the cleanup of start_browser's except branch.  _display.stop()
\* either returns, and the handle is dropped, or raises, which is swallowed
\* with the handle kept and the process ended or not.
CleanupOnError(s) ==
    IF s.display = "None" THEN {s}
    ELSE { [s EXCEPT !.display = "None", !.displayHeld = FALSE],
           [s EXCEPT !.displayHeld = FALSE],
           s }

\* 658-663: the same in stop_browser's except branch, where the handle is
\* dropped whether stop() raised or not.
DropDisplay(s) ==
    IF s.display = "None" THEN {s}
    ELSE { [s EXCEPT !.display = "None", !.displayHeld = FALSE],
           [s EXCEPT !.display = "None", !.displayHeld = FALSE,
                     !.leakedDisplays = @ + (IF s.displayHeld THEN 1 ELSE 0)] }

AlreadyRunning ==
    [success |-> FALSE,
     message |-> "Browser already running. Call stop_browser first."]

StartFailed == [success |-> FALSE, message |-> "Failed to start browser"]

\* 183-350: start_browser.  After the guard: the display (when asked for),
\* the browser, selenium-stealth and the resize, each of which may raise
\* into the except branch.
StartBrowser(use_xvfb, headless, enable_stealth) ==
    /\ server.status = "up"
    /\ server.calls < MaxCalls
    /\ IF server.browser # "None"
       THEN server' = Returned(server, "start_browser", AlreadyRunning)
       ELSE LET want == use_xvfb /\ ~headless
                \* _display = Display(...) replaces the handle
                orphan == IF server.displayHeld THEN 1 ELSE 0
                notStarted == [server EXCEPT !.display = "Display",
                                             !.displayHeld = FALSE,
                                             !.leakedDisplays = @ + orphan]
                withDisplay == IF want
                               THEN [notStarted EXCEPT !.displayHeld = TRUE]
                               ELSE server
                withBrowser == [withDisplay EXCEPT !.browser = "Chrome",
                                                   !.browserHeld = TRUE]
                faulted == (IF want THEN CleanupOnError(notStarted) ELSE {})
                              \cup CleanupOnError(withDisplay)
                              \cup CleanupOnError(withBrowser)
            IN  \/ \E s \in faulted :
                      server' = Returned(s, "start_browser", StartFailed)
                \/ server' = Returned(withBrowser, "start_browser",
                                      [success |-> TRUE, using_xvfb |-> want,
                                       stealth_enabled |-> enable_stealth])
    /\ UNCHANGED << engine, gen, page, gesture >>

\* Variant: a quit() that raises leaves the handles as they are.
StopBrowserKeepsOnError ==
    /\ server.status = "up"
    /\ server.calls < MaxCalls
    /\ IF server.browser = "None"
       THEN server' = Returned(server, "stop_browser",
                               [success |-> FALSE,
                                message |-> "No browser session running."])
       ELSE \/ \E s \in DropDisplay([server EXCEPT !.browser = "None",
                                                   !.browserHeld = FALSE]) :
                  server' = Returned(s, "stop_browser", [success |-> TRUE,
                                     message |-> "Browser stopped successfully."])
            \/ server' = Returned(server, "stop_browser",
                                  [success |-> FALSE,
                                   message |-> "Error stopping browser"])
    /\ UNCHANGED << engine, gen, page, gesture >>

\* 634-664: stop_browser.  quit() and stop() may raise; a call that raised
\* may or may not have ended its process.
StopBrowser ==
    /\ server.status = "up"
    /\ server.calls < MaxCalls
    /\ IF server.browser = "None"
       THEN server' = Returned(server, "stop_browser",
                               [success |-> FALSE,
                                message |-> "No browser session running."])
       ELSE LET quitted == [server EXCEPT !.browser = "None", !.browserHeld = FALSE]
                quitRaised ==
                    { quitted,
                      [quitted EXCEPT !.leakedBrowsers =
                                         @ + (IF server.browserHeld THEN 1 ELSE 0)] }
            IN  \/ server' = Returned(      \* quit() and stop() returned
                      [quitted EXCEPT !.display = "None", !.displayHeld = FALSE],
                      "stop_browser",
                      [success |-> TRUE, message |-> "Browser stopped successfully."])
                \/ \E s \in (IF quitted.display = "None" THEN {}
                             ELSE DropDisplay(quitted))     \* stop() raised
                       \cup UNION {DropDisplay(q) : q \in quitRaised} :
                      server' = Returned(s, "stop_browser",
                                         [success |-> FALSE,
                                          message |-> "Error stopping browser"])
    /\ UNCHANGED << engine, gen, page, gesture >>

SessionInit ==
    /\ EngineOff
    /\ gen = NoGen
    /\ page = NoPage
    /\ gesture = NoGesture
    /\ server = ServerFresh

SessionNext ==
    \/ \E use_xvfb \in BOOLEAN, headless \in BOOLEAN, enable_stealth \in BOOLEAN :
          StartBrowser(use_xvfb, headless, enable_stealth)
    \/ StopBrowser

SpecSession == SessionInit /\ [][SessionNext]_vars

(***************************************************************************)
(* The MCP server's robots.txt policy: get_robots_parser, is_url_allowed,  *)
(* configure_robots_txt, check_robots_txt and navigate.                    *)
(***************************************************************************)
\* A URL is its scheme://netloc, its path and its query, path and query as
\* sequences of pieces so that a robots.txt rule can be a prefix of them.
Url(domain, path, query) == [domain |-> domain, path |-> path, query |-> query]

Urls ==
    { Url("http://a.test", << "/search" >>, << >>),
      Url("http://a.test", << "/about" >>, << >>),
      Url("http://b.test", << "/find" >>, << "?q=1" >>) }

\* The robots.txt each site serves: Disallow lines by user-agent group.
\* a.test: "User-agent: *  Disallow: /search";
\* b.test: "User-agent: *  Disallow: /find?q=1".
Sites ==
    [d \in {"http://a.test", "http://b.test"} |->
        IF d = "http://a.test"
        THEN {[agent |-> "*", disallow |-> << "/search" >>]}
        ELSE {[agent |-> "*", disallow |-> << "/find", "?q=1" >>]}]

IsPrefix(p, t) == Len(p) <= Len(t) /\ SubSeq(t, 1, Len(p)) = p

\* RobotExclusionRulesParser.is_allowed(ua, target): no Disallow line of a
\* group that applies to ua is a prefix of the target.
ParserAllows(rules, ua, target) ==
    \A r \in rules : (r.agent \in {"*", ua}) => ~IsPrefix(r.disallow, target)

\* 128-129: urlparse(url).path or "/": the query is not part of it.
UrlPath(url) == url.path

\* The string robots.txt rules are matched against: path and query.
UrlTarget(url) == url.path \o url.query

\* 82-107: get_robots_parser: the cached parser of the domain, or a fetch
\* whose failure counts as an empty robots.txt; the result is cached.
\* Gives the set of possible [cache, fetched, rules].
get_robots_parser(cache, url) ==
    IF url.domain \in DOMAIN cache
    THEN {[cache |-> cache, fetched |-> << >>, rules |-> cache[url.domain]]}
    ELSE {[cache |-> [d \in DOMAIN cache \cup {url.domain} |->
                         IF d = url.domain THEN rules ELSE cache[d]],
           fetched |-> << url.domain >>, rules |-> rules] :
             rules \in {Sites[url.domain], {}}}

\* 110-134: is_url_allowed.  Gives the set of possible
\* [allowed, reason, cache, fetched].
is_url_allowed(s, url) ==
    IF ~s.respect_robots_txt
    THEN {[allowed |-> TRUE, reason |-> "robots.txt checking disabled",
           cache |-> s.robots_cache, fetched |-> << >>]}
    ELSE {[allowed |-> ParserAllows(p.rules, s.user_agent, UrlPath(url)),
           reason |-> IF ParserAllows(p.rules, s.user_agent, UrlPath(url))
                      THEN "Allowed by robots.txt"
                      ELSE "Disallowed by robots.txt for user-agent",
           cache |-> p.cache, fetched |-> p.fetched] :
             p \in get_robots_parser(s.robots_cache, url)}

\* Variant: the settings change and the cache is kept.
ConfigureRobotsTxtKeepsCache(respect, user_agent) ==
    /\ server.status = "up"
    /\ server.calls < MaxCalls
    /\ LET ua == IF user_agent # None THEN user_agent ELSE server.user_agent IN
       server' = Returned([server EXCEPT !.respect_robots_txt = respect,
                                         !.user_agent = ua,
                                         !.fetched = << >>],
                          "configure_robots_txt",
                          [success |-> TRUE, respect_robots_txt |-> respect,
                           user_agent |-> ua])
    /\ UNCHANGED << engine, gen, page, gesture >>

\* 354-383: configure_robots_txt
ConfigureRobotsTxt(respect, user_agent) ==
    /\ server.status = "up"
    /\ server.calls < MaxCalls
    /\ LET ua == IF user_agent # None THEN user_agent ELSE server.user_agent IN
       server' = Returned([server EXCEPT !.respect_robots_txt = respect,
                                         !.user_agent = ua,
                                         !.robots_cache = EmptyDict,
                                         !.fetched = << >>],
                          "configure_robots_txt",
                          [success |-> TRUE, respect_robots_txt |-> respect,
                           user_agent |-> ua])
    /\ UNCHANGED << engine, gen, page, gesture >>

\* 387-408: check_robots_txt
CheckRobotsTxt(url) ==
    /\ server.status = "up"
    /\ server.calls < MaxCalls
    /\ \E c \in is_url_allowed(server, url) :
          server' = Returned([server EXCEPT !.robots_cache = c.cache,
                                            !.fetched = c.fetched],
                             "check_robots_txt",
                             [success |-> TRUE, url |-> url, allowed |-> c.allowed,
                              reason |-> c.reason,
                              user_agent |-> server.user_agent])
    /\ UNCHANGED << engine, gen, page, gesture >>

\* 673-717: navigate
Navigate(url, skip_robots_check) ==
    /\ server.status = "up"
    /\ server.calls < MaxCalls
    /\ IF server.browser = "None"
       THEN server' = Returned([server EXCEPT !.fetched = << >>], "navigate",
                               [success |-> FALSE,
                                error |-> "No browser session. Call start_browser first."])
       ELSE \E c \in IF skip_robots_check
                     THEN {[allowed |-> TRUE, reason |-> "Skipped",
                            cache |-> server.robots_cache, fetched |-> << >>]}
                     ELSE is_url_allowed(server, url) :
               LET s == [server EXCEPT !.robots_cache = c.cache,
                                       !.fetched = c.fetched]
               IN  IF ~c.allowed
                   THEN server' = Returned(s, "navigate",
                           [success |-> FALSE,
                            error |-> "Navigation blocked by robots.txt",
                            url |-> url,
                            robots_txt_check |-> [allowed |-> FALSE,
                                                  reason |-> c.reason]])
                   ELSE \/ server' = Returned(      \* _browser.get(url) returned
                              [s EXCEPT !.loaded = url, !.gets = @ + 1],
                              "navigate",
                              [success |-> TRUE, title |-> "title", url |-> url,
                               robots_txt_check |->
                                   [allowed |-> TRUE,
                                    reason |-> IF skip_robots_check THEN "Skipped"
                                               ELSE "Allowed by robots.txt"]])
                        \/ server' = Returned(      \* _browser.get(url) raised
                              [s EXCEPT !.gets = @ + 1], "navigate",
                              [success |-> FALSE, error |-> "WebDriverException"])
    /\ UNCHANGED << engine, gen, page, gesture >>

RobotsNext ==
    \/ StartBrowser(FALSE, TRUE, FALSE)
    \/ \E respect \in BOOLEAN, user_agent \in {None, "OtherBot"} :
          ConfigureRobotsTxt(respect, user_agent)
    \/ \E url \in Urls : CheckRobotsTxt(url)
    \/ \E url \in Urls, skip_robots_check \in BOOLEAN : Navigate(url, skip_robots_check)

SpecRobots == SessionInit /\ [][RobotsNext]_vars

(***************************************************************************)
(* The MCP server's CAPTCHA configuration: configure_captcha_solver and    *)
(* solve_recaptcha_v2.                                                     *)
(***************************************************************************)
ServiceNames == {"2captcha", "2Captcha", "anticaptcha", "bogus"}
ApiKeys == {"", "key1", "key2"}

\* str.lower()
Lower(service) == IF service = "2Captcha" THEN "2captcha" ELSE service

\* 416-453: configure_captcha_solver.  The service and the key are stored
\* first; then the solver is built, which may raise, or the name is refused.
ConfigureCaptchaSolver(service, api_key) ==
    /\ server.status = "up"
    /\ server.calls < MaxCalls
    /\ LET s == [server EXCEPT !.captcha_service = Lower(service),
                               !.captcha_api_key = api_key]
           configured == [success |-> TRUE, service |-> Lower(service)]
       IN  IF Lower(service) = "2captcha"
           THEN \/ server' = Returned(
                      [s EXCEPT !.captcha_solver = "TwoCaptcha:" \o api_key],
                      "configure_captcha_solver", configured)
                \/ server' = Returned(s, "configure_captcha_solver",
                                      [success |-> FALSE,
                                       error |-> "Failed to configure CAPTCHA solver"])
           ELSE IF Lower(service) = "anticaptcha"
           THEN server' = Returned([s EXCEPT !.captcha_solver = None],
                                   "configure_captcha_solver", configured)
           ELSE server' = Returned(s, "configure_captcha_solver",
                                   [success |-> FALSE,
                                    error |-> "Unknown service: " \o service])
    /\ UNCHANGED << engine, gen, page, gesture >>

\* 457-515: solve_recaptcha_v2.  An empty service or key counts as not
\* configured; a missing solver object makes the 2captcha call raise inside
\* the try.
SolveRecaptchaV2 ==
    /\ server.status = "up"
    /\ server.calls < MaxCalls
    /\ LET fail(msg) == Returned(server, "solve_recaptcha_v2",
                                 [success |-> FALSE, error |-> msg])
       IN  IF server.captcha_service \in {None, ""}
              \/ server.captcha_api_key \in {None, ""}
           THEN server' = fail("CAPTCHA solver not configured. Call configure_captcha_solver first.")
           ELSE IF server.browser = "None"
           THEN server' = fail("No browser session. Call start_browser first.")
           ELSE IF server.captcha_service = "2captcha"
           THEN IF server.captcha_solver = None
                THEN server' = fail("Failed to solve reCAPTCHA")
                ELSE \/ server' = Returned(server, "solve_recaptcha_v2",
                                           [success |-> TRUE, token |-> "token",
                                            service |-> "2captcha"])
                     \/ server' = fail("Failed to solve reCAPTCHA")
           ELSE IF server.captcha_service = "anticaptcha"
           THEN \/ server' = Returned(server, "solve_recaptcha_v2",
                                      [success |-> TRUE, token |-> "token",
                                       service |-> "anticaptcha"])
                \/ server' = fail("AntiCaptcha error")
                \/ server' = fail("Failed to solve reCAPTCHA")
           ELSE server' = fail("Service " \o server.captcha_service
                                  \o " not supported for reCAPTCHA v2")
    /\ UNCHANGED << engine, gen, page, gesture >>

CaptchaNext ==
    \/ StartBrowser(FALSE, TRUE, FALSE)
    \/ \E service \in ServiceNames, api_key \in ApiKeys :
          ConfigureCaptchaSolver(service, api_key)
    \/ SolveRecaptchaV2

SpecCaptcha == SessionInit /\ [][CaptchaNext]_vars

(***************************************************************************)
(* Properties.                                                             *)
(***************************************************************************)
\* The records the controller decodes from the output stream.
IsJsonObject(line) == line.fmt = "json"

HasSuccessBoolean(line) ==
    /\ IsJsonObject(line)
    /\ "success" \in DOMAIN line.body
    /\ line.body.success \in BOOLEAN

IsFailureRecord(line) ==
    /\ HasSuccessBoolean(line)
    /\ line.body.success = FALSE

\* {success: false, error, traceback} for exception e.
IsExceptionRecord(line, e) ==
    /\ IsFailureRecord(line)
    /\ DOMAIN line.body = {"success", "error", "traceback"}
    /\ line.body.error = e

Last(seq) == seq[Len(seq)]

RECURSIVE NonBlank(_)
NonBlank(ls) ==
    IF ls = << >> THEN << >>
    ELSE IF Head(ls).kind = "blank" THEN NonBlank(Tail(ls))
         ELSE << Head(ls) >> \o NonBlank(Tail(ls))

\* The response lines: everything after the READY banner.
Responses == IF stdout = << >> THEN << >> ELSE Tail(stdout)

CdpFields == {"tz", "locale", "script"}

\* C1: an exception raised while a line is processed makes the loop write the
\* failure record {success: false, error, traceback} for it and return to
\* reading; it never ends the loop.
C1_ExceptionKeepsLoop ==
    [][(pc = "dispatch" /\ exc' # "none")
          => /\ pc' = "read"
             /\ Len(stdout') = Len(stdout) + 1
             /\ SubSeq(stdout', 1, Len(stdout)) = stdout
             /\ IsExceptionRecord(Last(stdout'), exc')]_vars

\* C1 witness: a failure record with a traceback was written and the line after
\* it was read and answered.
C1_Witness ==
    /\ Len(stdout) = 3
    /\ IsFailureRecord(stdout[2])
    /\ "traceback" \in DOMAIN stdout[2].body
    /\ stdout[2].body.error = "WebDriverException"
    /\ HasSuccessBoolean(stdout[3])
    /\ stdout[3].body.success

\* C2: a command whose action matches no handler is answered with
\* {success: false, error: "Unknown action: ..."} without raising, and the
\* profile, both handles, both processes and the driver call count are untouched.
C2_UnknownActionHarmless ==
    [][(pc = "dispatch" /\ cur.kind = "object"
           /\ DictGet(cur.cmd, "action") \notin HandledActions)
          => /\ stdout' = Append(stdout, JsonDumps(
                   [success |-> FALSE,
                    error |-> "Unknown action: "
                              \o PyStr(DictGet(cur.cmd, "action"))]))
             /\ exc' = "none"
             /\ pc' = "read"
             /\ UNCHANGED << session, browserOps >>]_vars

\* C2 witness: a command without an action was answered "Unknown action: None".
C2_Witness ==
    /\ pc = "read"
    /\ Len(lines) > 0
    /\ Last(lines).kind = "object"
    /\ "action" \notin DOMAIN Last(lines).cmd
    /\ Last(stdout).body = [success |-> FALSE, error |-> "Unknown action: None"]

\* C3: when start() ends by raising, neither the display nor a launched browser
\* is still held.
C3_FaultedStartReleases ==
    pc = "crashed" /\ lines = << >>
        => displayProc # "running" /\ browserProc # "running"

\* C4: however the command loop finishes, the browser and the display have both
\* been released.
C4_SessionEndReleases ==
    pc = "exited" => browserProc # "running" /\ displayProc # "running"

\* C5: when the loop is about to read, every non-blank line read so far has
\* exactly one response, in order: the k-th response answers the k-th non-blank
\* line; while a line is being processed only that line is unanswered.
Answers(line, out) ==
    /\ HasSuccessBoolean(out)
    /\ CASE line.kind = "malformed" -> IsExceptionRecord(out, "JSONDecodeError")
         [] line.kind = "nonobject" -> IsExceptionRecord(out, "AttributeError")
         [] OTHER ->
            LET action == DictGet(line.cmd, "action") IN
            CASE action = "navigate" ->
                    \/ /\ out.body.success
                       /\ out.body.url = line.cmd.url
                    \/ IsExceptionRecord(out, "KeyError")
                    \/ IsExceptionRecord(out, "WebDriverException")
              [] action = "get_stealth_profile" ->
                    /\ out.body.success
                    /\ "profile" \in DOMAIN out.body
              [] action = "local_storage_get" ->
                    \/ /\ out.body.success
                       /\ "data" \in DOMAIN out.body
                    \/ IsExceptionRecord(out, "WebDriverException")
                    \/ IsExceptionRecord(out, "TypeError")
              [] action = "close" ->
                    \/ out.body = [success |-> TRUE]
                    \/ IsExceptionRecord(out, "WebDriverException")
                    \/ IsExceptionRecord(out, "DisplayError")
              [] OTHER ->
                    /\ ~out.body.success
                    /\ out.body.error = "Unknown action: " \o PyStr(action)

C5_OneResponsePerLineInOrder ==
    LET asked == NonBlank(lines)
        pending == IF pc = "dispatch" THEN 1 ELSE 0
    IN  pc \in {"read", "dispatch", "exited"}
           => /\ Len(Responses) = Len(asked) - pending
              /\ \A k \in 1..Len(Responses) : Answers(asked[k], Responses[k])

\* C5 witness: two different commands were read and each has its own answer.
C5_Witness ==
    /\ pc = "read"
    /\ Len(lines) = 2
    /\ lines[1].kind = "malformed"
    /\ lines[2] = CommandLine([action |-> "bogus"])
    /\ Len(Responses) = 2
    /\ Responses[2].body.error = "Unknown action: bogus"

\* C6: every line on the output stream is a JSON object with a boolean success.
C6_EveryOutputLineIsJson ==
    \A i \in 1..Len(stdout) : HasSuccessBoolean(stdout[i])

\* C7: a startup failure keeps the command loop from beginning and reaches the
\* controller as a failure record on the output stream.
C7_StartupFailureReported ==
    pc = "crashed" /\ exc \in {"LaunchError", "StealthError", "ResizeError"}
        => /\ lines = << >>
           /\ \E i \in 1..Len(stdout) : IsFailureRecord(stdout[i])

\* C8: a rejected CDP startup call never aborts start(): each of the three calls
\* is attempted whatever the earlier ones did, a start() that raised after a
\* rejection raised in set_window_size and not in a CDP call, and a start() that
\* returned reports success with the browser running.
C8_CdpRejectionNeverAborts ==
    /\ pc = "cdp_locale" => cdp.tz # "not_attempted"
    /\ pc = "cdp_script" => cdp.tz # "not_attempted" /\ cdp.locale # "not_attempted"
    /\ (pc = "crashed" /\ \E f \in CdpFields : cdp[f] = "rejected")
          => /\ \A f \in CdpFields : cdp[f] # "not_attempted"
             /\ exc = "ResizeError"
    /\ pc = "ready"
          => /\ \A f \in CdpFields : cdp[f] # "not_attempted"
             /\ startResult # NoResult
             /\ startResult.success
             /\ browser = "Chrome"
             /\ browserProc = "running"

\* C8 witness: all three calls were rejected and start() returned success.
C8_Witness ==
    /\ pc = "ready"
    /\ \A f \in CdpFields : cdp[f] = "rejected"
    /\ startResult # NoResult
    /\ startResult.success

\* C9: when the stealth-script registration was rejected, what the controller
\* can see differs from what it sees for the same profile with the script
\* registered: the value start() returned, or a get_stealth_profile response.
C9_InjectionFailureObservable ==
    (startResult # NoResult /\ cdp.script = "rejected")
        => \/ startResult # StartReturnValue(stealth_profile)
           \/ \E i \in 1..Len(stdout) :
                 /\ IsJsonObject(stdout[i])
                 /\ "profile" \in DOMAIN stdout[i].body
                 /\ stdout[i] # JsonDumps(GetStealthProfileResult(stealth_profile))

\* C10: the profile is assigned by the generation step of start() and by nothing
\* else: no step after it, and no command, changes it.
C10_ProfileWrittenOnce ==
    [][stealth_profile' # stealth_profile
          => pc = "start" /\ stealth_profile = EmptyDict]_vars

\* C10 witness: the commands of a whole session, get_stealth_profile among them,
\* were handled with the generated profile in place.
C10_Witness ==
    /\ pc = "read"
    /\ Len(Responses) = 2
    /\ lines[1] = CommandLine([action |-> "get_stealth_profile"])
    /\ stealth_profile # EmptyDict
    /\ Responses[1] = JsonDumps(GetStealthProfileResult(stealth_profile))

\* C11: every get_stealth_profile response carries exactly the platform string,
\* the screen as WIDTHxHEIGHT, the WebGL vendor and renderer, the timezone, the
\* locale, the hardware concurrency and the device memory of the session's
\* profile, agrees with what start() returned, and holds no noise seed.
C11_IntrospectionReturnsProfile ==
    \A i \in 1..Len(stdout) :
        (IsJsonObject(stdout[i]) /\ "profile" \in DOMAIN stdout[i].body)
            => LET body == stdout[i].body
                   pr == stealth_profile
               IN  /\ DOMAIN body = {"success", "profile"}
                   /\ body.success = TRUE
                   /\ DOMAIN body.profile =
                         {"platform", "screen", "webgl_vendor", "webgl_renderer",
                          "timezone", "locale", "hw_concurrency", "device_memory"}
                   /\ body.profile.platform = pr.platform.platform
                   /\ body.profile.screen =
                         ToString(pr.screen.width) \o "x" \o ToString(pr.screen.height)
                   /\ body.profile.webgl_vendor = pr.webgl.vendor
                   /\ body.profile.webgl_renderer = pr.webgl.renderer
                   /\ body.profile.timezone = pr.timezone.tz
                   /\ body.profile.locale = pr.timezone.locale
                   /\ body.profile.hw_concurrency = pr.platform.hw_concurrency
                   /\ body.profile.device_memory = pr.platform.device_memory
                   /\ body.profile.platform = startResult.profile.platform
                   /\ body.profile.screen = startResult.profile.screen
                   /\ body.profile.webgl_renderer = startResult.profile.webgl
                   /\ body.profile.timezone = startResult.profile.timezone
                   /\ body.profile.locale = startResult.profile.locale

\* C11 witness: get_stealth_profile was asked twice in a session and answered
\* the same both times.
C11_Witness ==
    /\ Len(Responses) = 2
    /\ lines = << CommandLine([action |-> "get_stealth_profile"]),
                  CommandLine([action |-> "get_stealth_profile"]) >>
    /\ Responses[1] = Responses[2]
    /\ Responses[1].body.profile.platform = "MacIntel"
    /\ Responses[1].body.profile.timezone = "Europe/Berlin"

\* C12: in every generated profile the font list is the catalogue entry of the
\* drawn platform's OS family (never the Windows list for macos), locale and
\* timezone name are those of one row of the region's table, and the top-level
\* hardware concurrency and device memory are the drawn platform entry's.
C12_JointDraws ==
    gen.status = "done"
        => LET pr == gen.profile
               entry == PLATFORM_PROFILES[gen.draw.p]
               table == IF gen.region \in {"US", "EU"}
                        THEN TIMEZONE_MAP[gen.region] ELSE TIMEZONE_MAP["default"]
           IN  /\ pr.platform = entry
               /\ pr.fonts = FONT_SETS[entry.os]
               /\ entry.os = "macos" => pr.fonts # FONT_SETS["windows"]
               /\ entry.os = "macos" => pr.fonts[2] = "Avenir"
               /\ \E r \in 1..Len(table) :
                     /\ table[r].tz = pr.timezone.tz
                     /\ table[r].locale = pr.timezone.locale
               /\ pr.hw_concurrency = entry.hw_concurrency
               /\ pr.device_memory = entry.device_memory

\* C12 witness: a macos platform drawn together with the Berlin row.
C12_Witness ==
    /\ gen.status = "done"
    /\ gen.profile.platform.os = "macos"
    /\ gen.profile.fonts = FONT_SETS["macos"]
    /\ gen.profile.timezone.tz = "Europe/Berlin"
    /\ gen.profile.timezone.locale = "de-DE"

\* C13: region US yields one of the three US zones, EU one of the three EU
\* rows, and a region that is no key of the table yields the default row
\* (America/New_York, en-US); generation never fails.
C13_RegionSelectsTable ==
    /\ gen.status # "failed"
    /\ gen.status = "done"
          => LET tz == gen.profile.timezone IN
             /\ gen.region = "US"
                   => tz.tz \in {"America/New_York", "America/Chicago",
                                 "America/Los_Angeles"}
             /\ gen.region = "EU"
                   => \/ tz.tz = "Europe/London" /\ tz.locale = "en-GB"
                      \/ tz.tz = "Europe/Berlin" /\ tz.locale = "de-DE"
                      \/ tz.tz = "Europe/Paris" /\ tz.locale = "fr-FR"
             /\ gen.region \notin {"US", "EU"}
                   => tz.tz = "America/New_York" /\ tz.locale = "en-US"

\* C13 witness: a region that is no key of the table got the default row.
C13_Witness ==
    /\ gen.status = "done"
    /\ gen.region = "ZZ"
    /\ gen.profile.timezone = TzEntry("America/New_York", -300, "en-US")

\* C14: the canvas noise seed s of a generated profile satisfies 1 <= s < 2**31.
C14_CanvasSeedRange ==
    gen.status = "done"
        => /\ BigLeq(Big(0, 1), gen.profile.canvas_seed)
           /\ BigLess(gen.profile.canvas_seed, Big(32768, 0))

\* C15: with the script in place, the read-backs of a canvas the page did not
\* draw on in between are all identical, and so are the reads of one audio
\* buffer: the noise does not add up from call to call.
C15_NoiseDeterministic ==
    (page.status = "open" /\ page.wrap >= 1)
        => /\ \A i, j \in 1..Len(page.reads) : page.reads[i] = page.reads[j]
           /\ \A i, j \in 1..Len(page.audio_reads) :
                 page.audio_reads[i] = page.audio_reads[j]

\* C16: after the script ran twice in one document no run has thrown and each
\* patched method is wrapped exactly once.
C16_ReinjectionIdempotent ==
    (page.status = "open" /\ page.runs >= 2)
        => /\ ~page.threw
           /\ page.wrap = 1

\* C17: a trajectory of _human_move_to has steps + 1 points, starts exactly at
\* the start point and ends exactly at the target; the step count is between
\* 15 and 30 and the target lies inside the element's bounding box.
C17_TrajectoryShape ==
    (gesture.kind = "move" /\ ~gesture.fallback)
        => /\ Len(gesture.points) = gesture.steps + 1
           /\ gesture.points[1] = gesture.start
           /\ gesture.points[Len(gesture.points)] = gesture.target
           /\ 15 <= gesture.steps /\ gesture.steps <= 30
           /\ gesture.loc[1] <= gesture.target[1]
           /\ gesture.target[1] <= gesture.loc[1] + gesture.size[1]
           /\ gesture.loc[2] <= gesture.target[2]
           /\ gesture.target[2] <= gesture.loc[2] + gesture.size[2]

\* C17 witness: a 30-step trajectory from the far corner to a point inside a
\* 100x40 element at (300, 200).
C17_Witness ==
    /\ gesture.kind = "move" /\ ~gesture.fallback
    /\ gesture.start = << 800, 500 >>
    /\ gesture.loc = << 300, 200 >> /\ gesture.size = << 100, 40 >>
    /\ gesture.steps = 30
    /\ gesture.points[31] = << 380, 232 >>
    /\ gesture.points[16] # gesture.points[31]

\* C18: the insertion events of a typing call are the characters of the text,
\* one per event and in order; each event is followed by its pause before the
\* next one is issued; a call that returns has issued as many events as the
\* text has characters.
C18_OneEventPerCharacter ==
    gesture.kind = "type"
        => /\ Len(gesture.events) <= Len(gesture.text)
           /\ \A i \in 1..Len(gesture.events) :
                 i <= Len(gesture.text) => gesture.events[i] = << gesture.text[i] >>
           /\ gesture.phase = "send" => gesture.pauses = Len(gesture.events)
           /\ gesture.phase = "sleep" => gesture.pauses = Len(gesture.events) - 1
           /\ gesture.status = "done"
                 => /\ Len(gesture.events) = Len(gesture.text)
                    /\ gesture.pauses = Len(gesture.text)

\* C18 witness: "hello world" was typed to the end in 11 events.
C18_Witness ==
    /\ gesture.kind = "type" /\ gesture.status = "done"
    /\ gesture.text = << "h", "e", "l", "l", "o", " ", "w", "o", "r", "l", "d" >>
    /\ Len(gesture.events) = 11
    /\ gesture.events[6] = << " " >>
    /\ gesture.pauses = 11

\* C19: the delay after a typed character is at least the minimum of its class
\* (space . , ! ? : 80-200 ms; uppercase: 50-150 ms; others: 30-120 ms) and
\* is above the class maximum only by a thinking pause of 300-800 ms.
C19_DelayWithinClassBounds ==
    (gesture.kind = "type" /\ gesture.phase = "send" /\ gesture.pauses > 0
        /\ gesture.pauses <= Len(gesture.text))
        => LET char == gesture.text[gesture.pauses]
               lo == IF char \in {" ", ".", ",", "!", "?"} THEN 80
                     ELSE IF char \in {"A", "B", "H", "Z"} THEN 50 ELSE 30
               hi == IF char \in {" ", ".", ",", "!", "?"} THEN 200
                     ELSE IF char \in {"A", "B", "H", "Z"} THEN 150 ELSE 120
               delay == gesture.base + gesture.think
           IN  /\ delay >= lo
               /\ \/ delay <= hi
                  \/ /\ 300 <= gesture.think /\ gesture.think <= 800
                     /\ delay - gesture.think <= hi

\* C19 witness: the longest delay after a punctuation mark, thinking pause
\* included.
C19_Witness ==
    /\ gesture.kind = "type" /\ gesture.phase = "send" /\ gesture.pauses = 3
    /\ gesture.text[3] = "!"
    /\ gesture.base = 200 /\ gesture.think = 800

\* C20: a scroll call has 3 to 8 steps, a default total of 200..600, every
\* step within 20 px of the even split (step * steps within 20 * steps of the
\* amount), and, once it has ended, exactly as many scroll operations and
\* pauses as steps.
C20_ScrollSplit ==
    gesture.kind = "scroll"
        => /\ 3 <= gesture.steps /\ gesture.steps <= 8
           /\ ~gesture.given => (200 <= gesture.amount /\ gesture.amount <= 600)
           /\ gesture.issued > 0
                 => /\ gesture.step - gesture.amount <= 20 * gesture.steps
                    /\ gesture.amount - gesture.step <= 20 * gesture.steps
           /\ gesture.status # "scrolling"
                 => /\ gesture.issued = gesture.steps
                    /\ gesture.pauses = gesture.steps

\* C22: once start() has chosen, headless 'new' means no display was acquired;
\* otherwise --headless=new is used only when the display library is absent
\* or the display failed to start; and when start() returns exactly one of
\* "a display is held" and "the browser runs with --headless=new" is true.
C22_DisplayXorHeadless ==
    pc \notin {"start", "display"}
        => /\ config.headless = "new"
                 => (use_headless_new /\ display = "None" /\ displayProc = "none")
           /\ (use_headless_new /\ config.headless # "new")
                 => (display = "None" /\ displayProc = "none")
           /\ ~use_headless_new
                 => (config.headless # "new" /\ config.has_display_lib
                        /\ display = "Display")
           /\ pc = "ready" => ((displayProc = "running") # use_headless_new)

\* C22 witness: start() returned after the display failed to start although
\* the library is there and headless was not asked for.
C22_Witness ==
    /\ pc = "ready"
    /\ config.headless = "" /\ config.has_display_lib
    /\ use_headless_new /\ display = "None"
    /\ browserProc = "running"

\* C28: every step a scroll call issues has a non-negative amount, so that it
\* moves in the requested direction and its script is accepted.
C28_StepsKeepDirection ==
    (gesture.kind = "scroll" /\ gesture.issued > 0)
        => /\ gesture.step >= 0
           /\ gesture.status # "raised"

\* C27: when _human_move_to has completed without error the pointer is inside
\* the element's bounding box, wherever it was before, and the moves issued
\* add up to the way from where it was to the target.
C27_PointerEndsInElement ==
    (gesture.kind = "move" /\ gesture.status = "done")
        => /\ gesture.loc[1] <= gesture.pointer[1]
           /\ gesture.pointer[1] <= gesture.loc[1] + gesture.size[1]
           /\ gesture.loc[2] <= gesture.pointer[2]
           /\ gesture.pointer[2] <= gesture.loc[2] + gesture.size[2]
           /\ ~gesture.fallback => gesture.pointer = gesture.target

\* C21: a human_click or human_type whose element was gone when a step used
\* it is answered with the failure record of the stale-element error; a
\* command answered with success never used a detached element; and after
\* the answer the loop reads on with the browser running and every line so
\* far answered once.
C21_StaleElementFails ==
    /\ (gesture.kind = "command" /\ gesture.status = "answered")
          => /\ gesture.touched_stale
                   => IsExceptionRecord(stdout[gesture.answer],
                                        "StaleElementReferenceException")
             /\ ~IsFailureRecord(stdout[gesture.answer])
                   => (~gesture.touched_stale /\ ~gesture.acted_stale)
    /\ (gesture.kind = "command" /\ pc = "read")
          => /\ browserProc = "running"
             /\ Len(Responses) = Len(lines)

\* C21 witness: a human_click failed on a stale element and the command after
\* it was answered with the profile.
C21_Witness ==
    /\ gesture.kind = "command" /\ gesture.status = "answered"
    /\ gesture.action = "human_click" /\ gesture.touched_stale
    /\ Len(Responses) = 2
    /\ IsExceptionRecord(Responses[1], "StaleElementReferenceException")
    /\ lines[2] = CommandLine([action |-> "get_stealth_profile"])
    /\ Responses[2].body.success = TRUE

\* Running browser and display processes the server started.
BrowsersHeld == (IF server.browserHeld THEN 1 ELSE 0) + server.leakedBrowsers
DisplaysHeld == (IF server.displayHeld THEN 1 ELSE 0) + server.leakedDisplays

\* C25: over any sequence of start_browser and stop_browser calls at most one
\* browser and at most one display are running.
C25_AtMostOneSession ==
    server.status = "up" => (BrowsersHeld <= 1 /\ DisplaysHeld <= 1)

\* C26: when start_browser has returned its failure for a step that raised,
\* no browser and no display is running and no browser handle is recorded.
C26_FaultedStartReleases ==
    (server.status = "up" /\ server.last = "start_browser"
        /\ server.result = StartFailed)
        => /\ server.browser = "None"
           /\ ~server.browserHeld
           /\ ~server.displayHeld

\* C30: a stop_browser call with a session leaves both handles empty whatever
\* it reports; without a session it fails and changes nothing.
C30_StopEmptiesHandles ==
    [][(server.status = "up" /\ server'.calls = server.calls + 1
          /\ server'.last = "stop_browser")
        => IF server.browser # "None"
           THEN server'.browser = "None" /\ server'.display = "None"
           ELSE /\ server'.result.success = FALSE
                /\ server' = Returned(server, "stop_browser", server'.result)]_vars

\* C30 witness: a stop_browser that reported an error, and the start_browser
\* after it was not rejected.
C30_Witness ==
    /\ server.status = "up"
    /\ server.calls = 3
    /\ server.last = "start_browser"
    /\ server.result.success = TRUE
    /\ server.leakedBrowsers = 1

\* C23: a navigate that was subject to the robots.txt check and loaded the
\* URL loaded a URL that the domain's robots.txt, as the server holds it,
\* allows for the configured user agent; a navigate answered as blocked
\* issued no browser operation.
C23_NavigateObeysRobots ==
    (server.status = "up" /\ server.last = "navigate"
        /\ "robots_txt_check" \in DOMAIN server.result)
        => /\ (server.result.success /\ server.respect_robots_txt
                 /\ server.result.robots_txt_check.reason = "Allowed by robots.txt")
                 => ParserAllows(server.robots_cache[server.result.url.domain],
                                 server.user_agent, UrlTarget(server.result.url))
           /\ ~server.result.success => server.ops = 0

\* C24: while robots.txt respect is off, check_robots_txt reports allowed
\* for every URL and fetches nothing; every configure_robots_txt call leaves
\* the cache empty; with respect on, the check of a domain that is not in
\* the cache fetches its robots.txt.
C24_RobotsConfiguration ==
    [][(server.status = "up" /\ server'.calls = server.calls + 1)
        => /\ (server'.last = "check_robots_txt" /\ ~server.respect_robots_txt)
                 => /\ server'.result.allowed
                    /\ server'.fetched = << >>
                    /\ server'.robots_cache = server.robots_cache
           /\ server'.last = "configure_robots_txt"
                 => /\ server'.robots_cache = EmptyDict
                    /\ server'.respect_robots_txt = server'.result.respect_robots_txt
           /\ (server'.last = "check_robots_txt" /\ server.respect_robots_txt
                 /\ server'.result.url.domain \notin DOMAIN server.robots_cache)
                 => server'.fetched = << server'.result.url.domain >>]_vars

\* C24 witness: with respect switched off, the check of a URL that the site
\* disallows reported it allowed, on an empty cache.
C24_Witness ==
    /\ server.status = "up"
    /\ server.last = "check_robots_txt"
    /\ ~server.respect_robots_txt
    /\ server.result.url = Url("http://a.test", << "/search" >>, << >>)
    /\ server.result.allowed
    /\ server.robots_cache = EmptyDict
    /\ server.calls = 3

\* C29: a configure_captcha_solver call that returns success=false leaves
\* the recorded service, API key and solver object as they were.
C29_FailedConfigureKeepsSettings ==
    [][(server.status = "up" /\ server'.calls = server.calls + 1
          /\ server'.last = "configure_captcha_solver"
          /\ ~server'.result.success)
        => /\ server'.captcha_service = server.captcha_service
           /\ server'.captcha_api_key = server.captcha_api_key
           /\ server'.captcha_solver = server.captcha_solver]_vars

====
